---- MODULE Spec2Model ----
(***************************************************************************)
(* MusicAsk server (src/server/index.js): the in-memory Event / Request    *)
(* store, its snapshot file, the HTTP handlers that read and mutate it,    *)
(* and the socket.io connections the handlers emit to.                     *)
(*                                                                         *)
(* Node runs every handler to completion on one thread, so each handler    *)
(* is one atomic action.                                                   *)
(***************************************************************************)
EXTENDS Integers, Sequences, FiniteSets, TLC

\* ------------------------------------------------------------------ bounds
MaxEvents == 2      \* events ever created
MaxRequests == 2    \* requests ever created
MaxTime == 2        \* largest value Date.now() reaches
MaxConns == 1       \* socket.io clients
MaxWriteFailures == 1   \* writes of data.json that fail
MaxInbox == 2       \* notifications a listening client remembers
MaxSearches == 2    \* search calls in progress at once

\* .slice(0, 10) of an event's top tracks, .slice(0, 20) of the global ones
EventTopLimit == 10
GlobalTopLimit == 20

\* ------------------------------------------------------ JavaScript values
\* null in a timestamp field; Date.now() is always >= 1.
Null == 0
\* an absent (undefined) string, and null stored in a string field
Undefined == "undefined"
NullStr == "null"

\* `x || dflt` on strings: the empty string and undefined are falsy.
Truthy(s) == s /= "" /\ s /= Undefined
OrElse(s, dflt) == IF Truthy(s) THEN s ELSE dflt

\* req.body.f, undefined when the body has no such field
Field(body, f) == IF f \in DOMAIN body THEN body[f] ELSE Undefined

\* ---------------------------------------------------------------- inputs
\* POST /api/events bodies: every field is optional
CreateBodies ==
  { [x \in {} |-> Undefined],
    [name |-> "Festa", code |-> "1234"] }
\* String(Math.floor(1000 + Math.random() * 9000))
RandomCodes == {"1000"}

\* PATCH /api/events/:eventId bodies
PatchBodies ==
  { [x \in {} |-> Undefined],
    [name |-> "Baile"],
    [acceptedStyles |-> <<"rock">>],
    [active |-> TRUE],
    [active |-> FALSE],
    [name |-> "Baile", acceptedStyles |-> <<"rock">>, active |-> FALSE] }

\* the bodies that set no field, or the active flag alone
ActivePatches ==
  { [x \in {} |-> Undefined], [active |-> TRUE], [active |-> FALSE] }

OneCreateBody == { [name |-> "Festa", code |-> "1234"] }
OneSubmitBody == { [trackName |-> "Song A", artistName |-> "Band X"] }

\* POST /api/requests bodies, without the eventId
SubmitBodies ==
  { [trackName |-> "Song A", artistName |-> "Band X"],
    [trackName |-> "Song B", artistName |-> "Band X", albumImage |-> "img",
     spotifyUri |-> "uri", requesterName |-> "Ana"] }

\* submissions of three different (trackName, artistName) pairs, two of
\* them with the text ||| inside a name
TrackBodies ==
  { [trackName |-> "Song A", artistName |-> "Band X"],
    [trackName |-> "Song", artistName |-> "A|||B"],
    [trackName |-> "Song|||A", artistName |-> "B"] }

\* a submission with its names, and one without a trackName
NamelessBodies ==
  { [trackName |-> "Song A", artistName |-> "Band X"],
    [artistName |-> "Band X"] }

\* PATCH /api/requests/:requestId status values ("" and absent are falsy)
StatusInputs ==
  {"pending", "accepted", "rejected", "later_5_15", "later_15_30",
   "later_30_plus", "", Undefined}

\* the six status labels
StatusLabels ==
  {"pending", "accepted", "rejected", "later_5_15", "later_15_30",
   "later_30_plus"}

\* the statuses a request is moved between, and the two falsy ones
FewStatuses == {"accepted", "", Undefined}

\* the statuses counted by the statistics, and `later` itself as a status
CountedStatuses ==
  {"accepted", "rejected", "later_5_15", "later_15_30", "later_30_plus", "later"}

\* codes sent to POST /api/events/validate
CodeInputs == {"1234", "1000", Undefined}

\* ?status= of GET /api/events/:eventId/requests
FilterInputs == {Undefined, "accepted", "later"}

\* ?status= with every filter the statistics have a count for
CountedFilters == {Undefined, "", "accepted", "rejected", "later"}

Conns == 1..MaxConns

VARIABLES
  events,     \* data.events
  requests,   \* data.requests
  file,       \* data.json: <<>> when absent, else <<snapshot>>
  writeFailures, \* number of failed writes of data.json so far
  uuids,      \* number of ids uuidv4() has handed out
  now,        \* Date.now()
  connected,  \* the sockets currently connected
  rooms,      \* rooms[c]: the rooms socket c has joined
  inbox,      \* inbox[c]: the last MaxInbox notifications the client of
              \* socket c received since it connected, oldest first; kept
              \* only where the clients are followed (SpecFifo)
  emitted,    \* what the last handler emitted: <<>> or <<notification>>,
              \* each with the sockets it was sent to
  res,        \* what the last handler passed to sendResponse
  env,        \* whether SPOTIFY_CLIENT_ID and SPOTIFY_CLIENT_SECRET are set
  spotifyToken,  \* the cached access token, or null
  tokenExpiry,   \* the time the cached token expires, or null
  searches    \* searches[s]: where the search call s is waiting

searchVars == <<env, spotifyToken, tokenExpiry, searches>>
vars ==
  <<events, requests, file, writeFailures, uuids, now, connected, rooms, inbox,
    emitted, res, searchVars>>

\* ids a client can present: every id handed out so far, and one never issued
NoSuchId == MaxEvents + MaxRequests + 1
IdInputs == (1..uuids) \cup {NoSuchId}
\* ids a client joins: those of the events it can have seen
JoinInputs == {events[i].id : i \in DOMAIN events}

\* ----------------------------------------------------------- persistence
data == [events |-> events, requests |-> requests]

\* JSON.stringify of an object leaves out the properties whose value is
\* undefined; of the stored fields only the names taken unchecked from a
\* request body can be undefined
OptionalFields == {"trackName", "artistName"}
Defined(object) ==
  [f \in {g \in DOMAIN object :
            ~(g \in OptionalFields /\ object[g] = Undefined)} |-> object[f]]

\* a snapshot of the events alone
JSONstringify_EventsOnly(d) ==
  [events |-> [i \in DOMAIN d.events |-> Defined(d.events[i])],
   requests |-> <<>>]

JSONstringify(d) ==
  [events |-> [i \in DOMAIN d.events |-> Defined(d.events[i])],
   requests |-> [i \in DOMAIN d.requests |-> Defined(d.requests[i])]]

\* what is left of data.json when the write fails after the file was opened
\* for writing: text that JSON.parse rejects
Truncated == [truncated |-> TRUE]

\* a save that writes the store as it was before the handler changed it
saveData_Stale(d, ok) ==
  /\ ~ok => writeFailures < MaxWriteFailures
  /\ file' \in (IF ok THEN {<<JSONstringify(data)>>} ELSE {file, <<Truncated>>})
  /\ writeFailures' = IF ok THEN writeFailures ELSE writeFailures + 1

\* fs.writeFileSync(DATA_FILE, JSON.stringify(data)) writes in place: a
\* write that fails is caught and logged, and leaves the file as it was
\* (the open failed) or truncated (the write failed after the open).
saveData(d, ok) ==
  /\ ~ok => writeFailures < MaxWriteFailures
  /\ file' \in (IF ok THEN {<<JSONstringify(d)>>} ELSE {file, <<Truncated>>})
  /\ writeFailures' = IF ok THEN writeFailures ELSE writeFailures + 1

\* the fields the handlers read of an Event and of a Request
EventFields ==
  {"id", "name", "code", "active", "createdAt", "endedAt", "acceptedStyles",
   "totalRequests"}
RequestFields ==
  {"id", "eventId", "trackName", "artistName", "albumImage", "spotifyUri",
   "requesterName", "status", "requestedAt", "respondedAt"}

\* a reader that takes a missing property for null
AsStored_Null(object, fields) ==
  [f \in fields |-> IF f \in DOMAIN object THEN object[f] ELSE NullStr]

\* an object of the parsed snapshot, as the handlers read it: a property
\* that is not there reads as undefined
AsStored(object, fields) == [f \in fields |-> Field(object, f)]

JSONparse(text) ==
  [events |-> [i \in DOMAIN text.events |->
                 AsStored(text.events[i], EventFields)],
   requests |-> [i \in DOMAIN text.requests |->
                   AsStored(text.requests[i], RequestFields)]]

\* loadData(): the parsed data.json; the initial empty data when there is
\* no file or when reading or parsing it throws
loadData ==
  IF file = <<>> \/ file = <<Truncated>>
    THEN [events |-> <<>>, requests |-> <<>>]
    ELSE JSONparse(file[1])

\* ----------------------------------------------------------------- output
NoData == [kind |-> "null"]
EventData(e) == [kind |-> "event", value |-> e]
RequestData(r) == [kind |-> "request", value |-> r]
ListData(l) == [kind |-> "list", value |-> l]
StatsData(st) == [kind |-> "stats", value |-> st]

\* res.json({ success, message, data }); the messages are written here
\* without their accents
sendResponse(success, message, responseData) ==
  [success |-> success, message |-> message, data |-> responseData]

\* an emit that reaches only the sockets that joined some room
ioEmit_ToJoined(type, payload) ==
  <<[type |-> type, payload |-> payload,
     to |-> {c \in connected : rooms[c] /= {}}]>>

\* io.emit(type, payload): to every connected socket, whatever its rooms
ioEmit(type, payload) ==
  <<[type |-> type, payload |-> payload, to |-> connected]>>

\* ---------------------------------------------------------------- lookups
\* Array.prototype.find: the first element satisfying the test, as an index
\* (0 when there is none); matches is the set of indexes passing the test
FirstIndex(matches) ==
  IF matches = {} THEN 0
  ELSE CHOOSE i \in matches : \A j \in matches : i <= j

\* a test of activity that looks at endedAt instead of the active flag
existingActive_NotEnded == FirstIndex({i \in DOMAIN events : events[i].endedAt = Null})

IsActive(e) == e.active
existingActive == FirstIndex({i \in DOMAIN events : IsActive(events[i])})

\* a lookup that falls back on the first event
EventIndex_OrFirst(eventId) ==
  IF \E i \in DOMAIN events : events[i].id = eventId
    THEN FirstIndex({i \in DOMAIN events : events[i].id = eventId})
    ELSE IF events = <<>> THEN 0 ELSE 1

EventIndex(eventId) == FirstIndex({i \in DOMAIN events : events[i].id = eventId})
\* a lookup that forgets `&& e.active`
ActiveEventIndex_AnyEvent(eventId) ==
  FirstIndex({i \in DOMAIN events : events[i].id = eventId})

\* a lookup that takes every id for that of the first event
ActiveEventIndex_Unchecked(eventId) == 1

\* a lookup that tests endedAt where it should test active
ActiveEventIndex_NotEnded(eventId) ==
  FirstIndex({i \in DOMAIN events :
                events[i].id = eventId /\ events[i].endedAt = Null})

ActiveEventIndex(eventId) ==
  FirstIndex({i \in DOMAIN events : events[i].id = eventId /\ events[i].active})
RequestIndex(requestId) == FirstIndex({i \in DOMAIN requests : requests[i].id = requestId})

\* ------------------------------------------------------- POST /api/events
CreateEvent(body, rnd, ok) ==
  LET name == Field(body, "name")
      code == Field(body, "code")
  IN IF existingActive /= 0
       THEN /\ res' = sendResponse(FALSE, "Ja existe um evento ativo", NoData)
            /\ emitted' = <<>>
            /\ UNCHANGED <<events, requests, file, writeFailures, uuids, now, connected, rooms>>
       ELSE /\ Len(events) < MaxEvents
            /\ LET event ==
                     [id |-> uuids + 1,
                      name |-> OrElse(name, "Evento " \o code),
                      code |-> OrElse(code, rnd),
                      active |-> TRUE,
                      createdAt |-> now,
                      endedAt |-> Null,
                      acceptedStyles |-> <<>>,
                      totalRequests |-> 0]
               IN /\ events' = Append(events, event)
                  /\ uuids' = uuids + 1
                  /\ saveData([events |-> events', requests |-> requests], ok)
                  /\ emitted' = ioEmit("event_created", event)
                  /\ res' = sendResponse(TRUE, "Evento criado com sucesso",
                                         EventData(event))
            /\ UNCHANGED <<requests, now, connected, rooms>>

\* ------------------------------------------- PATCH /api/events/:eventId
\* an update that clears endedAt when it sets the event active
PatchedEvent_Reopens(event, body) ==
  [event EXCEPT
     !.name = IF "name" \in DOMAIN body THEN body.name ELSE @,
     !.acceptedStyles =
        IF "acceptedStyles" \in DOMAIN body THEN body.acceptedStyles ELSE @,
     !.active = IF "active" \in DOMAIN body THEN body.active ELSE @,
     !.endedAt = IF "active" \in DOMAIN body /\ body.active THEN Null ELSE @]

PatchedEvent(event, body) ==
  [event EXCEPT
     !.name = IF "name" \in DOMAIN body THEN body.name ELSE @,
     !.acceptedStyles =
        IF "acceptedStyles" \in DOMAIN body THEN body.acceptedStyles ELSE @,
     !.active = IF "active" \in DOMAIN body THEN body.active ELSE @]

UpdateEvent(eventId, body, ok) ==
  LET i == EventIndex(eventId)
  IN IF i = 0
       THEN /\ res' = sendResponse(FALSE, "Evento nao encontrado", NoData)
            /\ emitted' = <<>>
            /\ UNCHANGED <<events, requests, file, writeFailures, uuids, now, connected, rooms>>
       ELSE LET event == PatchedEvent(events[i], body)
            IN /\ events' = [events EXCEPT ![i] = event]
               /\ saveData([events |-> events', requests |-> requests], ok)
               /\ emitted' = ioEmit("event_updated", event)
               /\ res' = sendResponse(TRUE, "Evento atualizado", EventData(event))
               /\ UNCHANGED <<requests, uuids, now, connected, rooms>>

\* ----------------------------------------- POST /api/events/:eventId/end
\* an end that forgets to stamp endedAt
EndedEvent_NoStamp(event) == [event EXCEPT !.active = FALSE]

EndedEvent(event) == [event EXCEPT !.active = FALSE, !.endedAt = now]

EndEvent(eventId, ok) ==
  LET i == EventIndex(eventId)
  IN IF i = 0
       THEN /\ res' = sendResponse(FALSE, "Evento nao encontrado", NoData)
            /\ emitted' = <<>>
            /\ UNCHANGED <<events, requests, file, writeFailures, uuids, now, connected, rooms>>
       ELSE LET event == EndedEvent(events[i])
            IN /\ events' = [events EXCEPT ![i] = event]
               /\ saveData([events |-> events', requests |-> requests], ok)
               /\ emitted' = ioEmit("event_ended", event)
               /\ res' = sendResponse(TRUE, "Evento encerrado", EventData(event))
               /\ UNCHANGED <<requests, uuids, now, connected, rooms>>

\* ----------------------------------------------------- POST /api/requests
\* a request that is born with a response time
NewRequest_Responded(eventId, body) ==
  [id |-> uuids + 1,
   eventId |-> eventId,
   trackName |-> Field(body, "trackName"),
   artistName |-> Field(body, "artistName"),
   albumImage |-> OrElse(Field(body, "albumImage"), NullStr),
   spotifyUri |-> OrElse(Field(body, "spotifyUri"), NullStr),
   requesterName |-> OrElse(Field(body, "requesterName"), "Anonimo"),
   status |-> "pending",
   requestedAt |-> now,
   respondedAt |-> now]

NewRequest(eventId, body) ==
  [id |-> uuids + 1,
   eventId |-> eventId,
   trackName |-> Field(body, "trackName"),
   artistName |-> Field(body, "artistName"),
   albumImage |-> OrElse(Field(body, "albumImage"), NullStr),
   spotifyUri |-> OrElse(Field(body, "spotifyUri"), NullStr),
   requesterName |-> OrElse(Field(body, "requesterName"), "Anonimo"),
   status |-> "pending",
   requestedAt |-> now,
   respondedAt |-> Null]

SubmitRequest(eventId, body, ok) ==
  IF ActiveEventIndex(eventId) = 0
    THEN /\ res' = sendResponse(FALSE, "Evento nao encontrado ou encerrado", NoData)
         /\ emitted' = <<>>
         /\ UNCHANGED <<events, requests, file, writeFailures, uuids, now, connected, rooms>>
    ELSE /\ Len(requests) < MaxRequests
         /\ LET request == NewRequest(eventId, body)
            IN /\ requests' = Append(requests, request)
               /\ uuids' = uuids + 1
               /\ saveData([events |-> events, requests |-> requests'], ok)
               /\ emitted' = ioEmit("new_request", request)
               /\ res' = sendResponse(TRUE, "Pedido enviado com sucesso",
                                      RequestData(request))
         /\ UNCHANGED <<events, now, connected, rooms>>

\* --------------------------------------- PATCH /api/requests/:requestId
\* an update that stamps respondedAt on the first response only
StatusUpdated_FirstOnly(request, status) ==
  IF Truthy(status)
    THEN [request EXCEPT !.status = status,
                         !.respondedAt = IF @ = Null THEN now ELSE @]
    ELSE request

\* an update that stamps requestedAt where it should stamp respondedAt
StatusUpdated_StampsRequestedAt(request, status) ==
  IF Truthy(status)
    THEN [request EXCEPT !.status = status, !.requestedAt = now]
    ELSE request

\* an update that answers a pending request only
StatusUpdated_PendingOnly(request, status) ==
  IF Truthy(status) /\ request.status = "pending"
    THEN [request EXCEPT !.status = status, !.respondedAt = now]
    ELSE request

\* an update that sets the status and stamps nothing
StatusUpdated_NoStamp(request, status) ==
  IF Truthy(status) THEN [request EXCEPT !.status = status] ELSE request

StatusUpdated(request, status) ==
  IF Truthy(status)
    THEN [request EXCEPT !.status = status, !.respondedAt = now]
    ELSE request

UpdateStatus(requestId, status, ok) ==
  LET i == RequestIndex(requestId)
  IN IF i = 0
       THEN /\ res' = sendResponse(FALSE, "Pedido nao encontrado", NoData)
            /\ emitted' = <<>>
            /\ UNCHANGED <<events, requests, file, writeFailures, uuids, now, connected, rooms>>
       ELSE LET request == StatusUpdated(requests[i], status)
            IN /\ requests' = [requests EXCEPT ![i] = request]
               /\ saveData([events |-> events, requests |-> requests'], ok)
               /\ emitted' = ioEmit("request_updated", request)
               /\ res' = sendResponse(TRUE, "Status atualizado", RequestData(request))
               /\ UNCHANGED <<events, uuids, now, connected, rooms>>

\* ------------------------------------------------------------ the queries
\* data.requests.filter(r => r.eventId === eventId)
RequestsOf(eventId) == SelectSeq(requests, LAMBDA r : r.eventId = eventId)

\* Array.prototype.sort((a, b) => b[field] - a[field]): stable, descending
RECURSIVE InsertDesc(_, _, _)
InsertDesc(sorted, x, field) ==
  IF sorted = <<>> THEN <<x>>
  ELSE IF Head(sorted)[field] >= x[field]
    THEN <<Head(sorted)>> \o InsertDesc(Tail(sorted), x, field)
    ELSE <<x>> \o sorted

RECURSIVE SortDesc(_, _)
SortDesc(seq, field) ==
  IF seq = <<>> THEN <<>>
  ELSE InsertDesc(SortDesc(SubSeq(seq, 1, Len(seq) - 1), field), seq[Len(seq)], field)

\* the event with a freshly computed totalRequests
WithCount(event) ==
  [event EXCEPT !.totalRequests = Len(RequestsOf(event.id))]

\* GET /api/events/active
GetActiveEvent ==
  LET i == existingActive
  IN IF i /= 0
       THEN /\ events' = [events EXCEPT ![i] = WithCount(events[i])]
            /\ res' = sendResponse(TRUE, "Evento ativo encontrado",
                                   EventData(events'[i]))
            /\ emitted' = <<>>
            /\ UNCHANGED <<requests, file, writeFailures, uuids, now, connected, rooms>>
       ELSE /\ res' = sendResponse(FALSE, "Nenhum evento ativo", NoData)
            /\ emitted' = <<>>
            /\ UNCHANGED <<events, requests, file, writeFailures, uuids, now, connected, rooms>>

\* GET /api/events
eventsWithCounts ==
  SortDesc([i \in DOMAIN events |-> WithCount(events[i])],
           "createdAt")

ListEvents ==
  /\ res' = sendResponse(TRUE, "Eventos carregados", ListData(eventsWithCounts))
  /\ emitted' = <<>>
  /\ UNCHANGED <<events, requests, file, writeFailures, uuids, now, connected, rooms>>

\* GET /api/events/:eventId
GetEvent(eventId) ==
  LET i == EventIndex(eventId)
  IN IF i /= 0
       THEN /\ events' = [events EXCEPT ![i] = WithCount(events[i])]
            /\ res' = sendResponse(TRUE, "Evento encontrado", EventData(events'[i]))
            /\ emitted' = <<>>
            /\ UNCHANGED <<requests, file, writeFailures, uuids, now, connected, rooms>>
       ELSE /\ res' = sendResponse(FALSE, "Evento nao encontrado", NoData)
            /\ emitted' = <<>>
            /\ UNCHANGED <<events, requests, file, writeFailures, uuids, now, connected, rooms>>

\* GET /api/events/:eventId/requests?status=
IsLater(r) ==
  r.status = "later_5_15" \/ r.status = "later_15_30" \/ r.status = "later_30_plus"

eventRequests(eventId, status) ==
  LET all == RequestsOf(eventId)
      kept == IF Truthy(status)
                THEN IF status = "later"
                       THEN SelectSeq(all, IsLater)
                       ELSE SelectSeq(all, LAMBDA r : r.status = status)
                ELSE all
  IN SortDesc(kept, "requestedAt")

ListEventRequests(eventId, status) ==
  /\ res' = sendResponse(TRUE, "Pedidos carregados",
                         ListData(eventRequests(eventId, status)))
  /\ emitted' = <<>>
  /\ UNCHANGED <<events, requests, file, writeFailures, uuids, now, connected, rooms>>

\* the track counts of a list of requests: one entry per key
\* `${trackName}|||${artistName}`, in the order the keys first appear
TrackKey(r) == r.trackName \o "|||" \o r.artistName

RECURSIVE trackCounts(_)
trackCounts(rs) ==
  IF rs = <<>> THEN <<>>
  ELSE LET before == trackCounts(SubSeq(rs, 1, Len(rs) - 1))
           r == rs[Len(rs)]
           at == FirstIndex({i \in DOMAIN before : before[i].key = TrackKey(r)})
       IN IF at = 0
            THEN Append(before, [key |-> TrackKey(r), trackName |-> r.trackName,
                                 artistName |-> r.artistName, count |-> 1])
            ELSE [before EXCEPT ![at].count = @ + 1]

\* Object.values(trackCounts).sort((a, b) => b.count - a.count).slice(0, n)
topTracks(rs, n) ==
  LET sorted == SortDesc(trackCounts(rs), "count")
      entries == [i \in DOMAIN sorted |->
                    [trackName |-> sorted[i].trackName,
                     artistName |-> sorted[i].artistName,
                     count |-> sorted[i].count]]
  IN SubSeq(entries, 1, IF Len(entries) < n THEN Len(entries) ELSE n)

\* GET /api/events/:eventId/stats
\* statistics that count later_5_15 alone as later
stats_LaterOneLabel(eventId) ==
  LET ers == RequestsOf(eventId)
  IN [totalRequests |-> Len(ers),
      acceptedRequests |-> Len(SelectSeq(ers, LAMBDA r : r.status = "accepted")),
      rejectedRequests |-> Len(SelectSeq(ers, LAMBDA r : r.status = "rejected")),
      laterRequests |-> Len(SelectSeq(ers, LAMBDA r : r.status = "later_5_15")),
      topTracks |-> topTracks(ers, EventTopLimit)]

stats(eventId) ==
  LET ers == RequestsOf(eventId)
  IN [totalRequests |-> Len(ers),
      acceptedRequests |-> Len(SelectSeq(ers, LAMBDA r : r.status = "accepted")),
      rejectedRequests |-> Len(SelectSeq(ers, LAMBDA r : r.status = "rejected")),
      laterRequests |-> Len(SelectSeq(ers, IsLater)),
      topTracks |-> topTracks(ers, EventTopLimit)]

EventStats(eventId) ==
  /\ res' = sendResponse(TRUE, "Estatisticas carregadas", StatsData(stats(eventId)))
  /\ emitted' = <<>>
  /\ UNCHANGED <<events, requests, file, writeFailures, uuids, now, connected, rooms>>

\* POST /api/events/validate
\* a lookup that forgets `&& e.active`
ValidIndex_AnyEvent(code) == FirstIndex({i \in DOMAIN events : events[i].code = code})

ValidIndex(code) == FirstIndex({i \in DOMAIN events : events[i].code = code /\ events[i].active})

ValidateCode(code) ==
  LET i == ValidIndex(code)
  IN /\ res' = IF i /= 0
                 THEN sendResponse(TRUE, "Codigo valido",
                        [kind |-> "validation", eventId |-> events[i].id,
                         eventName |-> events[i].name])
                 ELSE sendResponse(FALSE, "Codigo invalido ou evento encerrado",
                                   NoData)
     /\ emitted' = <<>>
     /\ UNCHANGED <<events, requests, file, writeFailures, uuids, now, connected, rooms>>

\* GET /api/requests/:requestId
GetRequest(requestId) ==
  LET i == RequestIndex(requestId)
  IN /\ res' = IF i /= 0
                 THEN sendResponse(TRUE, "Pedido encontrado", RequestData(requests[i]))
                 ELSE sendResponse(FALSE, "Pedido nao encontrado", NoData)
     /\ emitted' = <<>>
     /\ UNCHANGED <<events, requests, file, writeFailures, uuids, now, connected, rooms>>

\* GET /api/stats/top-tracks
TopTracks ==
  /\ res' = sendResponse(TRUE, "Top tracks carregados",
                         ListData(topTracks(requests, GlobalTopLimit)))
  /\ emitted' = <<>>
  /\ UNCHANGED <<events, requests, file, writeFailures, uuids, now, connected, rooms>>

\* ------------------------------------------------------------- socket.io
\* a client connects: a new socket, in no event room
Connect(c) ==
  /\ c \notin connected
  /\ connected' = connected \cup {c}
  /\ rooms' = [rooms EXCEPT ![c] = {}]
  /\ emitted' = <<>>
  /\ UNCHANGED <<events, requests, file, writeFailures, uuids, now, res>>

\* socket.on('join_event', eventId => socket.join(eventId))
JoinEvent(c, eventId) ==
  /\ c \in connected
  /\ rooms' = [rooms EXCEPT ![c] = @ \cup {eventId}]
  /\ emitted' = <<>>
  /\ UNCHANGED <<events, requests, file, writeFailures, uuids, now, connected, res>>

\* a disconnected socket leaves every room
Disconnect(c) ==
  /\ c \in connected
  /\ connected' = connected \ {c}
  /\ rooms' = [rooms EXCEPT ![c] = {}]
  /\ emitted' = <<>>
  /\ UNCHANGED <<events, requests, file, writeFailures, uuids, now, res>>

\* ----------------------------------------------------------------- search
\* Text that is taken apart or put together is a sequence of pieces here.
Searches == 1..MaxSearches
Idle == [pc |-> "idle"]

\* ?q= of GET /api/search/tracks; <<>> is an empty or absent q
QueryInputs == { <<>>, <<"a">>, <<" ", "a", " ">>, <<"a", "b">> }
\* expires_in of a token, in clock units
ExpiresInputs == {1}
\* how the Spotify search ends: with tracks, with an error (network, 401,
\* ...), or with a body that has no tracks
SearchOutcomes == {"tracks", "error", "malformed"}
SpotifyItems ==
  << [name |-> <<"Song A">>, artists |-> << <<"Band X">>, <<"Band Y">> >>,
      images |-> <<>>, uri |-> <<"uri:a">>],
     [name |-> <<"Song B">>, artists |-> << <<"Band X">> >>,
      images |-> << [url |-> <<"cover">>] >>, uri |-> <<"uri:b">>] >>

\* String.prototype.trim
RECURSIVE TrimStart(_)
TrimStart(q) ==
  IF q /= <<>> /\ Head(q) = " " THEN TrimStart(Tail(q)) ELSE q
RECURSIVE TrimEnd(_)
TrimEnd(q) ==
  IF q /= <<>> /\ q[Len(q)] = " "
    THEN TrimEnd(SubSeq(q, 1, Len(q) - 1)) ELSE q
trim(q) == TrimEnd(TrimStart(q))

\* !q || q.trim().length < 2
TooShort(q) == q = <<>> \/ Len(trim(q)) < 2

\* null in a search result, whose texts are sequences (no url and no uri
\* of Spotify is empty)
NullText == <<>>

\* the placeholder results of searchSpotifyTracks
mockTracks(query) ==
  << [name |-> query, artist |-> <<"Artista 1">>, image |-> NullText,
      uri |-> NullText],
     [name |-> query \o <<" (Remix)">>, artist |-> <<"Artista 2">>,
      image |-> NullText, uri |-> NullText],
     [name |-> <<"Outra ">> \o query, artist |-> <<"Artista 3">>,
      image |-> NullText, uri |-> NullText] >>

\* track.artists.map(a => a.name).join(', ')
RECURSIVE join(_)
join(names) ==
  IF names = <<>> THEN <<>>
  ELSE IF Len(names) = 1 THEN names[1]
  ELSE names[1] \o <<", ">> \o join(Tail(names))

\* response.data.tracks.items.map(...)
mapTracks(items) ==
  [i \in DOMAIN items |->
     [name |-> items[i].name,
      artist |-> join(items[i].artists),
      image |-> IF items[i].images = <<>> THEN NullText
                ELSE IF items[i].images[1].url = <<>> THEN NullText
                ELSE items[i].images[1].url,
      uri |-> items[i].uri]]

\* spotifyToken && tokenExpiry && Date.now() < tokenExpiry
\* a test that takes any cached token, expired or not
tokenIsFresh_Any == spotifyToken /= Null

tokenIsFresh ==
  spotifyToken /= Null /\ tokenExpiry /= Null /\ now < tokenExpiry

storeVars ==
  <<events, requests, file, writeFailures, uuids, now, connected, rooms>>

\* GET /api/search/tracks, up to the first request it waits for:
\* searchSpotifyTracks(q) calls getSpotifyToken(), which answers at once
\* when the credentials are not set (null) or a fresh token is cached, and
\* posts to accounts.spotify.com otherwise.
SearchTracks(s, q) ==
  /\ searches[s].pc = "idle"
  /\ emitted' = <<>>
  /\ IF TooShort(q)
       THEN /\ res' = sendResponse(FALSE, "Query muito curta", ListData(<<>>))
            /\ UNCHANGED searches
       ELSE IF ~env
         THEN /\ res' = sendResponse(TRUE, "Musicas encontradas",
                                     ListData(mockTracks(q)))
              /\ UNCHANGED searches
         ELSE IF tokenIsFresh
           THEN /\ searches' = [searches EXCEPT ![s] =
                                  [pc |-> "search", q |-> q,
                                   token |-> spotifyToken]]
                /\ UNCHANGED res
           ELSE /\ searches' = [searches EXCEPT ![s] =
                                  [pc |-> "token", q |-> q]]
                /\ UNCHANGED res
  /\ UNCHANGED <<storeVars, env, spotifyToken, tokenExpiry>>

\* the post to accounts.spotify.com answers: the token is cached and the
\* search is sent with it, or the error is caught, getSpotifyToken() gives
\* null and the call answers with the placeholder results
TokenReply(s, ok, expiresIn) ==
  /\ searches[s].pc = "token"
  /\ emitted' = <<>>
  /\ IF ok
       THEN /\ spotifyToken' = s
            /\ tokenExpiry' = now + expiresIn
            /\ searches' = [searches EXCEPT ![s] =
                              [pc |-> "search", q |-> searches[s].q,
                               token |-> s]]
            /\ UNCHANGED res
       ELSE /\ res' = sendResponse(TRUE, "Musicas encontradas",
                                   ListData(mockTracks(searches[s].q)))
            /\ searches' = [searches EXCEPT ![s] = Idle]
            /\ UNCHANGED <<spotifyToken, tokenExpiry>>
  /\ UNCHANGED <<storeVars, env>>

\* the get to api.spotify.com answers: the tracks are mapped and sent, or
\* the error (of the request, or of reading a body without tracks) is
\* caught and an empty list is sent
SearchReply(s, outcome) ==
  /\ searches[s].pc = "search"
  /\ emitted' = <<>>
  /\ res' = sendResponse(TRUE, "Musicas encontradas",
                         ListData(IF outcome = "tracks"
                                    THEN mapTracks(SpotifyItems) ELSE <<>>))
  /\ searches' = [searches EXCEPT ![s] = Idle]
  /\ UNCHANGED <<storeVars, env, spotifyToken, tokenExpiry>>

\* ---------------------------------------------------------------- restart
\* the process ends and a new one starts, in an environment with or without
\* the Spotify credentials: loadData() runs again, no socket is connected,
\* no token is cached, no search is in progress and nothing has been
\* answered yet
Restart ==
  /\ events' = loadData.events
  /\ requests' = loadData.requests
  /\ connected' = {}
  /\ rooms' = [c \in Conns |-> {}]
  /\ emitted' = <<>>
  /\ res' = sendResponse(TRUE, "", NoData)
  /\ env' \in BOOLEAN
  /\ spotifyToken' = Null
  /\ tokenExpiry' = Null
  /\ searches' = [s \in Searches |-> Idle]
  /\ UNCHANGED <<file, writeFailures, uuids, now>>

\* ------------------------------------------------------------------ clock
Tick ==
  /\ now < MaxTime
  /\ now' = now + 1
  /\ UNCHANGED <<events, requests, file, writeFailures, uuids, connected, rooms, emitted, res>>

\* ------------------------------------------------------------------- spec
\* loadData() with no data.json: the initial `data` is kept
Init ==
  /\ events = <<>>
  /\ requests = <<>>
  /\ file = <<>>
  /\ writeFailures = 0
  /\ uuids = 0
  /\ now = 1
  /\ connected = {}
  /\ rooms = [c \in Conns |-> {}]
  /\ inbox = [c \in Conns |-> <<>>]
  /\ emitted = <<>>
  /\ res = sendResponse(TRUE, "", NoData)
  /\ env = FALSE
  /\ spotifyToken = Null
  /\ tokenExpiry = Null
  /\ searches = [s \in Searches |-> Idle]

\* What the clients receive is followed in SpecFifo alone, and the searches
\* in SpecSearch alone; in the other specifications the inboxes are left as
\* they are, empty, and no search is made.

\* The events and the submissions to them, within one millisecond; writes
\* of data.json succeed.
Next ==
  \/ \E body \in OneCreateBody, rnd \in RandomCodes :
       CreateEvent(body, rnd, TRUE) /\ UNCHANGED <<inbox, searchVars>>
  \/ \E eventId \in IdInputs, body \in ActivePatches :
       UpdateEvent(eventId, body, TRUE) /\ UNCHANGED <<inbox, searchVars>>
  \/ \E eventId \in IdInputs :
       EndEvent(eventId, TRUE) /\ UNCHANGED <<inbox, searchVars>>
  \/ \E eventId \in IdInputs, body \in OneSubmitBody :
       SubmitRequest(eventId, body, TRUE) /\ UNCHANGED <<inbox, searchVars>>

Spec == Init /\ [][Next]_vars

\* Every mutating handler, on a running clock.
NextClock ==
  \/ \E body \in OneCreateBody, rnd \in RandomCodes :
       CreateEvent(body, rnd, TRUE) /\ UNCHANGED <<inbox, searchVars>>
  \/ \E eventId \in IdInputs, body \in ActivePatches :
       UpdateEvent(eventId, body, TRUE) /\ UNCHANGED <<inbox, searchVars>>
  \/ \E eventId \in IdInputs :
       EndEvent(eventId, TRUE) /\ UNCHANGED <<inbox, searchVars>>
  \/ \E eventId \in IdInputs, body \in OneSubmitBody :
       SubmitRequest(eventId, body, TRUE) /\ UNCHANGED <<inbox, searchVars>>
  \/ \E requestId \in IdInputs, status \in FewStatuses :
       UpdateStatus(requestId, status, TRUE) /\ UNCHANGED <<inbox, searchVars>>
  \/ Tick /\ UNCHANGED <<inbox, searchVars>>

SpecClock == Init /\ [][NextClock]_vars

\* The statuses of the requests of one event, on a running clock.
NextStatus ==
  \/ \E body \in OneCreateBody, rnd \in RandomCodes :
       CreateEvent(body, rnd, TRUE) /\ UNCHANGED <<inbox, searchVars>>
  \/ \E eventId \in IdInputs, body \in OneSubmitBody :
       SubmitRequest(eventId, body, TRUE) /\ UNCHANGED <<inbox, searchVars>>
  \/ \E requestId \in IdInputs, status \in StatusInputs :
       UpdateStatus(requestId, status, TRUE) /\ UNCHANGED <<inbox, searchVars>>
  \/ Tick /\ UNCHANGED <<inbox, searchVars>>

SpecStatus == Init /\ [][NextStatus]_vars

\* The life of the events, on a running clock, with the queries on events.
NextEvents ==
  \/ \E body \in CreateBodies, rnd \in RandomCodes :
       CreateEvent(body, rnd, TRUE) /\ UNCHANGED <<inbox, searchVars>>
  \/ \E eventId \in IdInputs, body \in ActivePatches :
       UpdateEvent(eventId, body, TRUE) /\ UNCHANGED <<inbox, searchVars>>
  \/ \E eventId \in IdInputs :
       EndEvent(eventId, TRUE) /\ UNCHANGED <<inbox, searchVars>>
  \/ \E code \in CodeInputs :
       ValidateCode(code) /\ UNCHANGED <<inbox, searchVars>>
  \/ GetActiveEvent /\ UNCHANGED <<inbox, searchVars>>
  \/ ListEvents /\ UNCHANGED <<inbox, searchVars>>
  \/ \E eventId \in IdInputs :
       GetEvent(eventId) /\ UNCHANGED <<inbox, searchVars>>
  \/ Tick /\ UNCHANGED <<inbox, searchVars>>

SpecEvents == Init /\ [][NextEvents]_vars

\* Every query, over the stores the mutating handlers build within one
\* millisecond.
NextReads ==
  \/ \E body \in CreateBodies, rnd \in RandomCodes :
       CreateEvent(body, rnd, TRUE) /\ UNCHANGED <<inbox, searchVars>>
  \/ \E eventId \in IdInputs :
       EndEvent(eventId, TRUE) /\ UNCHANGED <<inbox, searchVars>>
  \/ \E eventId \in IdInputs, body \in SubmitBodies :
       SubmitRequest(eventId, body, TRUE) /\ UNCHANGED <<inbox, searchVars>>
  \/ \E requestId \in IdInputs, status \in FewStatuses :
       UpdateStatus(requestId, status, TRUE) /\ UNCHANGED <<inbox, searchVars>>
  \/ GetActiveEvent /\ UNCHANGED <<inbox, searchVars>>
  \/ ListEvents /\ UNCHANGED <<inbox, searchVars>>
  \/ \E eventId \in IdInputs :
       GetEvent(eventId) /\ UNCHANGED <<inbox, searchVars>>
  \/ \E eventId \in IdInputs, status \in FilterInputs :
       ListEventRequests(eventId, status) /\ UNCHANGED <<inbox, searchVars>>
  \/ \E eventId \in IdInputs :
       EventStats(eventId) /\ UNCHANGED <<inbox, searchVars>>
  \/ \E code \in CodeInputs :
       ValidateCode(code) /\ UNCHANGED <<inbox, searchVars>>
  \/ \E requestId \in IdInputs :
       GetRequest(requestId) /\ UNCHANGED <<inbox, searchVars>>
  \/ TopTracks /\ UNCHANGED <<inbox, searchVars>>

SpecReads == Init /\ [][NextReads]_vars

\* The sockets, and the handlers that emit to them.
NextRealtime ==
  \/ \E body \in OneCreateBody, rnd \in RandomCodes :
       CreateEvent(body, rnd, TRUE) /\ UNCHANGED <<inbox, searchVars>>
  \/ \E eventId \in IdInputs, body \in ActivePatches :
       UpdateEvent(eventId, body, TRUE) /\ UNCHANGED <<inbox, searchVars>>
  \/ \E eventId \in IdInputs :
       EndEvent(eventId, TRUE) /\ UNCHANGED <<inbox, searchVars>>
  \/ \E eventId \in IdInputs, body \in OneSubmitBody :
       SubmitRequest(eventId, body, TRUE) /\ UNCHANGED <<inbox, searchVars>>
  \/ \E requestId \in IdInputs, status \in FewStatuses :
       UpdateStatus(requestId, status, TRUE) /\ UNCHANGED <<inbox, searchVars>>
  \/ \E c \in Conns : Connect(c) /\ UNCHANGED <<inbox, searchVars>>
  \/ \E c \in Conns, eventId \in JoinInputs :
       JoinEvent(c, eventId) /\ UNCHANGED <<inbox, searchVars>>
  \/ \E c \in Conns : Disconnect(c) /\ UNCHANGED <<inbox, searchVars>>

SpecRealtime == Init /\ [][NextRealtime]_vars

\* The clients that listen: socket.io writes a notification to each socket
\* it is sent to after everything it wrote to that socket before, and the
\* client receives what was written in that order.
LastOf(q) ==
  IF Len(q) <= MaxInbox THEN q ELSE SubSeq(q, Len(q) - MaxInbox + 1, Len(q))

\* a client that puts what it receives before what it has
receive_First(q, n) == LastOf(<<n>> \o q)

receive(q, n) == LastOf(Append(q, n))

\* every socket the last handler emitted to receives the notification
Delivered ==
  inbox' = [c \in Conns |->
              IF emitted' /= <<>> /\ c \in emitted'[1].to
                THEN receive(inbox[c], [type |-> emitted'[1].type,
                                        payload |-> emitted'[1].payload])
                ELSE inbox[c]]

\* The handlers that emit, within one millisecond, and the clients that
\* receive.
NextFifo ==
  \/ \E body \in OneCreateBody, rnd \in RandomCodes :
       CreateEvent(body, rnd, TRUE) /\ Delivered /\ UNCHANGED searchVars
  \/ \E eventId \in IdInputs :
       EndEvent(eventId, TRUE) /\ Delivered /\ UNCHANGED searchVars
  \/ \E eventId \in IdInputs, body \in OneSubmitBody :
       SubmitRequest(eventId, body, TRUE) /\ Delivered /\ UNCHANGED searchVars
  \/ \E requestId \in IdInputs, status \in FewStatuses :
       UpdateStatus(requestId, status, TRUE) /\ Delivered /\ UNCHANGED searchVars
  \/ \E c \in Conns :
       /\ Connect(c)
       /\ inbox' = [inbox EXCEPT ![c] = <<>>]
       /\ UNCHANGED searchVars
  \/ \E c \in Conns, eventId \in JoinInputs :
       JoinEvent(c, eventId) /\ UNCHANGED <<inbox, searchVars>>
  \/ \E c \in Conns : Disconnect(c) /\ UNCHANGED <<inbox, searchVars>>

SpecFifo == Init /\ [][NextFifo]_vars

\* The statistics and the lists of the requests of two events, within one
\* millisecond.
NextStats ==
  \/ \E body \in OneCreateBody, rnd \in RandomCodes :
       CreateEvent(body, rnd, TRUE) /\ UNCHANGED <<inbox, searchVars>>
  \/ \E eventId \in IdInputs :
       EndEvent(eventId, TRUE) /\ UNCHANGED <<inbox, searchVars>>
  \/ \E eventId \in IdInputs, body \in OneSubmitBody :
       SubmitRequest(eventId, body, TRUE) /\ UNCHANGED <<inbox, searchVars>>
  \/ \E requestId \in IdInputs, status \in CountedStatuses :
       UpdateStatus(requestId, status, TRUE) /\ UNCHANGED <<inbox, searchVars>>
  \/ \E eventId \in IdInputs, status \in CountedFilters :
       ListEventRequests(eventId, status) /\ UNCHANGED <<inbox, searchVars>>
  \/ \E eventId \in IdInputs :
       EventStats(eventId) /\ UNCHANGED <<inbox, searchVars>>

SpecStats == Init /\ [][NextStats]_vars

\* The top tracks of the submissions to two events, within one millisecond.
NextTracks ==
  \/ \E body \in OneCreateBody, rnd \in RandomCodes :
       CreateEvent(body, rnd, TRUE) /\ UNCHANGED <<inbox, searchVars>>
  \/ \E eventId \in IdInputs :
       EndEvent(eventId, TRUE) /\ UNCHANGED <<inbox, searchVars>>
  \/ \E eventId \in IdInputs, body \in TrackBodies :
       SubmitRequest(eventId, body, TRUE) /\ UNCHANGED <<inbox, searchVars>>
  \/ \E eventId \in IdInputs :
       EventStats(eventId) /\ UNCHANGED <<inbox, searchVars>>
  \/ TopTracks /\ UNCHANGED <<inbox, searchVars>>

SpecTracks == Init /\ [][NextTracks]_vars

\* The status labels of the requests of events that are active or ended,
\* within one millisecond.
NextLabels ==
  \/ \E body \in OneCreateBody, rnd \in RandomCodes :
       CreateEvent(body, rnd, TRUE) /\ UNCHANGED <<inbox, searchVars>>
  \/ \E eventId \in IdInputs :
       EndEvent(eventId, TRUE) /\ UNCHANGED <<inbox, searchVars>>
  \/ \E eventId \in IdInputs, body \in OneSubmitBody :
       SubmitRequest(eventId, body, TRUE) /\ UNCHANGED <<inbox, searchVars>>
  \/ \E requestId \in IdInputs, status \in StatusLabels :
       UpdateStatus(requestId, status, TRUE) /\ UNCHANGED <<inbox, searchVars>>

SpecLabels == Init /\ [][NextLabels]_vars

\* The fields of the events under every kind of update, within one
\* millisecond.
NextPatch ==
  \/ \E body \in OneCreateBody, rnd \in RandomCodes :
       CreateEvent(body, rnd, TRUE) /\ UNCHANGED <<inbox, searchVars>>
  \/ \E eventId \in IdInputs, body \in PatchBodies :
       UpdateEvent(eventId, body, TRUE) /\ UNCHANGED <<inbox, searchVars>>
  \/ \E eventId \in IdInputs :
       EndEvent(eventId, TRUE) /\ UNCHANGED <<inbox, searchVars>>
  \/ \E eventId \in IdInputs, body \in OneSubmitBody :
       SubmitRequest(eventId, body, TRUE) /\ UNCHANGED <<inbox, searchVars>>

SpecPatch == Init /\ [][NextPatch]_vars

\* Every mutating handler, within one millisecond, with writes of data.json
\* that succeed or fail.
NextWrites ==
  \/ \E body \in OneCreateBody, rnd \in RandomCodes, ok \in BOOLEAN :
       CreateEvent(body, rnd, ok) /\ UNCHANGED <<inbox, searchVars>>
  \/ \E eventId \in IdInputs, body \in ActivePatches, ok \in BOOLEAN :
       UpdateEvent(eventId, body, ok) /\ UNCHANGED <<inbox, searchVars>>
  \/ \E eventId \in IdInputs, ok \in BOOLEAN :
       EndEvent(eventId, ok) /\ UNCHANGED <<inbox, searchVars>>
  \/ \E eventId \in IdInputs, body \in OneSubmitBody, ok \in BOOLEAN :
       SubmitRequest(eventId, body, ok) /\ UNCHANGED <<inbox, searchVars>>
  \/ \E requestId \in IdInputs, status \in FewStatuses, ok \in BOOLEAN :
       UpdateStatus(requestId, status, ok) /\ UNCHANGED <<inbox, searchVars>>

SpecWrites == Init /\ [][NextWrites]_vars

\* The store and data.json through writes that succeed or fail and through
\* restarts of the process, within one millisecond.
NextRestart ==
  \/ \E body \in OneCreateBody, rnd \in RandomCodes, ok \in BOOLEAN :
       CreateEvent(body, rnd, ok) /\ UNCHANGED <<inbox, searchVars>>
  \/ \E eventId \in IdInputs, ok \in BOOLEAN :
       EndEvent(eventId, ok) /\ UNCHANGED <<inbox, searchVars>>
  \/ \E eventId \in IdInputs, body \in NamelessBodies, ok \in BOOLEAN :
       SubmitRequest(eventId, body, ok) /\ UNCHANGED <<inbox, searchVars>>
  \/ \E requestId \in IdInputs, status \in FewStatuses, ok \in BOOLEAN :
       UpdateStatus(requestId, status, ok) /\ UNCHANGED <<inbox, searchVars>>
  \/ Restart /\ UNCHANGED inbox

SpecRestart == Init /\ [][NextRestart]_vars

\* The search calls, their waits for Spotify overlapping, on a running
\* clock, in processes started with and without the credentials.
NextSearch ==
  \/ \E s \in Searches, q \in QueryInputs :
       SearchTracks(s, q) /\ UNCHANGED inbox
  \/ \E s \in Searches, ok \in BOOLEAN, expiresIn \in ExpiresInputs :
       TokenReply(s, ok, expiresIn) /\ UNCHANGED inbox
  \/ \E s \in Searches, outcome \in SearchOutcomes :
       SearchReply(s, outcome) /\ UNCHANGED inbox
  \/ Tick /\ UNCHANGED <<inbox, searchVars>>
  \/ Restart /\ UNCHANGED inbox

SpecSearch == Init /\ [][NextSearch]_vars

\* ======================================================================
\* Properties
\* ======================================================================
ActiveIndexes == {i \in DOMAIN events : events[i].active = TRUE}
ActiveEventExists(eventId) ==
  \E i \in DOMAIN events : events[i].id = eventId /\ events[i].active = TRUE
CountOf(rs, eventId) == Cardinality({i \in DOMAIN rs : rs[i].eventId = eventId})

\* C1: in every reachable state at most one Event has active = true, whatever
\* sequence of create-event, update-event and end-event calls led there.
C1_AtMostOneActive == Cardinality(ActiveIndexes) <= 1

\* C2: a connection that joined only event channel A receives no
\* event-scoped notification about another event and no notification of the
\* global channel, and a connection that joined no event channel receives no
\* event-scoped notification.
EventScoped == {"event_updated", "event_ended", "new_request", "request_updated"}
ConcernedEvent(n) ==
  IF n.type \in {"new_request", "request_updated"} THEN n.payload.eventId
  ELSE n.payload.id

C2_ScopedDelivery ==
  \A k \in DOMAIN emitted : \A c \in emitted[k].to :
    LET n == emitted[k]
    IN /\ rooms[c] = {} => n.type \notin EventScoped
       /\ Cardinality(rooms[c]) = 1 =>
            /\ n.type \in EventScoped => ConcernedEvent(n) \in rooms[c]
            /\ n.type /= "event_created"

\* C3: a submit-request call whose eventId matches no Event, or an Event that
\* is not active, reports failure, leaves the Requests, the Events and the
\* snapshot as they were and emits nothing.
C3_RejectedSubmitChangesNothing ==
  [][\A eventId \in IdInputs, body \in SubmitBodies :
       (~ActiveEventExists(eventId) /\ SubmitRequest(eventId, body, TRUE)) =>
         /\ res'.success = FALSE
         /\ requests' = requests
         /\ events' = events
         /\ file' = file
         /\ emitted' = <<>>]_vars

C3_Witness ==
  /\ res.message = "Evento nao encontrado ou encerrado"
  /\ requests /= <<>>
  /\ \E i \in DOMAIN events : ~events[i].active

\* C4: a submit-request call against an existing active Event E appends
\* exactly one Request; E's count of Requests grows by one, every other
\* Event's count is unchanged, and the new Request is pending, has no
\* respondedAt and has eventId = E.
C4_AcceptedSubmitAddsOne ==
  [][\A eventId \in IdInputs, body \in SubmitBodies :
       (ActiveEventExists(eventId) /\ SubmitRequest(eventId, body, TRUE)) =>
         /\ Len(requests') = Len(requests) + 1
         /\ SubSeq(requests', 1, Len(requests)) = requests
         /\ \A i \in DOMAIN events :
              CountOf(requests', events[i].id) =
                CountOf(requests, events[i].id)
                  + (IF events[i].id = eventId THEN 1 ELSE 0)
         /\ LET request == requests'[Len(requests')]
            IN /\ request.status = "pending"
               /\ request.respondedAt = Null
               /\ request.eventId = eventId]_vars

C4_Witness ==
  /\ res.message = "Pedido enviado com sucesso"
  /\ Len(requests) = 2
  /\ requests[1].eventId /= requests[2].eventId
  /\ res.data.value = requests[2]

\* C5: create-event while some Event is active is rejected and changes
\* neither the Events, the Requests nor the snapshot and emits nothing;
\* create-event while no Event is active succeeds and appends exactly one
\* Event, with active = true and endedAt = null.
C5_CreateOnlyWhenNoneActive ==
  [][\A body \in CreateBodies, rnd \in RandomCodes :
       CreateEvent(body, rnd, TRUE) =>
         IF ActiveIndexes /= {}
           THEN /\ res'.success = FALSE
                /\ events' = events
                /\ requests' = requests
                /\ file' = file
                /\ emitted' = <<>>
           ELSE /\ res'.success = TRUE
                /\ Len(events') = Len(events) + 1
                /\ SubSeq(events', 1, Len(events)) = events
                /\ events'[Len(events')].active = TRUE
                /\ events'[Len(events')].endedAt = Null
                /\ requests' = requests]_vars

C5_Witness ==
  /\ res.message = "Ja existe um evento ativo"
  /\ Len(events) = 2
  /\ requests /= <<>>

\* C6: end-event on an existing Event leaves it with active = false and a
\* non-null endedAt whatever its state was; called again it succeeds again,
\* leaves active = false, sets an endedAt not earlier than the one before and
\* emits event_ended again.
C6_EndEvent ==
  [][\A i \in DOMAIN events :
       EndEvent(events[i].id, TRUE) =>
            /\ events'[i].active = FALSE
            /\ events'[i].endedAt /= Null
            /\ events[i].endedAt /= Null => events'[i].endedAt >= events[i].endedAt
            /\ res'.success = TRUE
            /\ Len(emitted') = 1
            /\ emitted'[1].type = "event_ended"
            /\ emitted'[1].payload = events'[i]]_vars

C6_Witness ==
  /\ res.message = "Evento encerrado"
  /\ res.data.value.createdAt < res.data.value.endedAt
  /\ \E i \in DOMAIN events : events[i] = res.data.value /\ ~events[i].active

\* C7: validate-code succeeds for a code only if an Event that is active at
\* the call has that code, and then returns the id and the name of such an
\* Event; so the code of an ended Event validates only through another,
\* active, Event with the same code.
C7_ValidateOnlyActive ==
  [][\A code \in CodeInputs :
       (ValidateCode(code) /\ res'.success = TRUE) =>
         \E i \in DOMAIN events :
           /\ events[i].active = TRUE
           /\ events[i].code = code
           /\ res'.data.eventId = events[i].id
           /\ res'.data.eventName = events[i].name]_vars

C7_Witness ==
  /\ res.message = "Codigo valido"
  /\ \E i \in DOMAIN events :
       /\ ~events[i].active
       /\ events[i].endedAt /= Null
       /\ events[i].id /= res.data.eventId

\* C8: every update-status call on an existing Request, whatever the status
\* supplied (the current one, an empty or an absent one included), overwrites
\* the status with it and stamps respondedAt with the current time.
C8_AlwaysOverwrites ==
  [][\A i \in DOMAIN requests, status \in StatusInputs :
       UpdateStatus(requests[i].id, status, TRUE) =>
            /\ requests'[i].status = status
            /\ requests'[i].respondedAt = now
            /\ requests'[i].respondedAt /= Null]_vars

\* C8, as the code has it: an update-status call on an existing Request with
\* a non-empty status (the current one included) overwrites the status with
\* it and stamps respondedAt with the current time; with an empty or absent
\* status the Request is left as it was. Either way the call succeeds and
\* emits request_updated with the Request.
C8_OverwritesWhenStatusGiven ==
  [][\A i \in DOMAIN requests, status \in StatusInputs :
       UpdateStatus(requests[i].id, status, TRUE) =>
            /\ (status /= "" /\ status /= Undefined) =>
                 /\ requests'[i].status = status
                 /\ requests'[i].respondedAt = now
                 /\ requests'[i].respondedAt /= Null
            /\ (status = "" \/ status = Undefined) => requests' = requests
            /\ res'.success = TRUE
            /\ Len(emitted') = 1
            /\ emitted'[1].type = "request_updated"
            /\ emitted'[1].payload = requests'[i]]_vars

C8_Witness ==
  /\ res.message = "Status atualizado"
  /\ \E i \in DOMAIN requests :
       /\ requests[i] = res.data.value
       /\ requests[i].status = "accepted"
       /\ requests[i].requestedAt < requests[i].respondedAt

\* C9: a Request, once it exists, is never removed and keeps its id, eventId,
\* trackName, artistName and requestedAt through every end-event,
\* update-event, update-status, submit-request and create-event call; its
\* status and respondedAt change only in an update-status call.
SameIdentity(r, s) ==
  /\ s.id = r.id
  /\ s.eventId = r.eventId
  /\ s.trackName = r.trackName
  /\ s.artistName = r.artistName
  /\ s.requestedAt = r.requestedAt

C9_RequestsAreKept ==
  [][/\ Len(requests') >= Len(requests)
     /\ \A i \in DOMAIN requests :
          /\ SameIdentity(requests[i], requests'[i])
          /\ (requests'[i].status /= requests[i].status
                \/ requests'[i].respondedAt /= requests[i].respondedAt) =>
               \E status \in StatusInputs :
                 UpdateStatus(requests[i].id, status, TRUE)]_vars

C9_Witness ==
  \E i \in DOMAIN requests : \E j \in DOMAIN events :
    /\ requests[i].eventId = events[j].id
    /\ ~events[j].active
    /\ events[j].endedAt /= Null
    /\ requests[i].status = "accepted"
    /\ requests[i].requestedAt < now
    /\ Len(events) = 2

\* C10: every query (active event, list of events, event by id, requests of
\* an event, statistics of an event, request by id, global top tracks,
\* validate code) leaves every stored Event and Request and the snapshot as
\* they were, and emits nothing.
Query ==
  \/ GetActiveEvent
  \/ ListEvents
  \/ \E eventId \in IdInputs : GetEvent(eventId)
  \/ \E eventId \in IdInputs, status \in FilterInputs :
       ListEventRequests(eventId, status)
  \/ \E eventId \in IdInputs : EventStats(eventId)
  \/ \E code \in CodeInputs : ValidateCode(code)
  \/ \E requestId \in IdInputs : GetRequest(requestId)
  \/ TopTracks

C10_QueriesChangeNothing ==
  [][Query =>
       /\ events' = events
       /\ requests' = requests
       /\ file' = file
       /\ emitted' = <<>>]_vars

\* C11: in every reachable state each connection is in at most one event
\* channel: a connection that joined event A and then joins event B is in
\* B's channel only.
C11_AtMostOneChannel == \A c \in Conns : Cardinality(rooms[c]) <= 1

\* C12: every successful submit-request, update-status, update-event and
\* end-event call about Event E sends exactly one notification of the
\* matching type (new_request, request_updated, event_updated, event_ended),
\* carrying the entity as it is after the mutation, to every socket that is
\* connected and in E's room at the call; every successful create-event
\* sends event_created to every connected socket.
Subscribers(eventId) == {c \in connected : eventId \in rooms[c]}
Notified(type, entity, eventId) ==
  /\ Len(emitted') = 1
  /\ emitted'[1].type = type
  /\ emitted'[1].payload = entity
  /\ Subscribers(eventId) \subseteq emitted'[1].to

C12_SubscribersAreNotified ==
  [][/\ \A eventId \in IdInputs, body \in OneSubmitBody :
          (ActiveEventExists(eventId) /\ SubmitRequest(eventId, body, TRUE)) =>
            Notified("new_request", requests'[Len(requests')], eventId)
     /\ \A i \in DOMAIN requests, status \in FewStatuses :
          UpdateStatus(requests[i].id, status, TRUE) =>
            Notified("request_updated", requests'[i], requests[i].eventId)
     /\ \A i \in DOMAIN events, body \in ActivePatches :
          UpdateEvent(events[i].id, body, TRUE) =>
            Notified("event_updated", events'[i], events[i].id)
     /\ \A i \in DOMAIN events :
          EndEvent(events[i].id, TRUE) =>
            Notified("event_ended", events'[i], events[i].id)
     /\ \A body \in OneCreateBody, rnd \in RandomCodes :
          (ActiveIndexes = {} /\ CreateEvent(body, rnd, TRUE)) =>
            /\ Len(emitted') = 1
            /\ emitted'[1].type = "event_created"
            /\ emitted'[1].payload = events'[Len(events')]
            /\ emitted'[1].to = connected]_vars

C12_Witness ==
  /\ Len(emitted) = 1
  /\ emitted[1].type = "request_updated"
  /\ emitted[1].payload.status = "accepted"
  /\ \E c \in emitted[1].to : emitted[1].payload.eventId \in rooms[c]
  /\ \E i \in DOMAIN requests : requests[i] = emitted[1].payload

\* C13: the notifications of one channel reach every connection subscribed
\* to it throughout in the order their mutations were applied, however the
\* mutating calls interleave: the step that applies a mutation about Event E
\* puts its notification, carrying the entity as the step leaves it, after
\* everything a subscriber of E has received, no other step touches what a
\* connected subscriber has received, and among what a subscriber holds a
\* Request's new_request never comes after a request_updated of it.
SubscribedThroughout(c, eventId) ==
  /\ c \in connected /\ eventId \in rooms[c]
  /\ c \in connected' /\ eventId \in rooms'[c]

ReceivedLast(c, n) ==
  LET q == inbox[c]
      q2 == inbox'[c]
  IN /\ Len(q2) = (IF Len(q) < MaxInbox THEN Len(q) + 1 ELSE MaxInbox)
     /\ q2[Len(q2)] = n
     /\ \A k \in 1..(Len(q2) - 1) : q2[k] = q[Len(q) - (Len(q2) - 1) + k]

InOrder(q) ==
  \A k \in DOMAIN q, l \in DOMAIN q :
    (k < l /\ q[k].type = "request_updated" /\ q[l].type = "new_request") =>
      q[k].payload.id /= q[l].payload.id

C14_StatsAgreeWithList ==
  \A eventId \in IdInputs :
    LET st == stats(eventId)
    IN /\ st.totalRequests = Len(eventRequests(eventId, Undefined))
       /\ st.acceptedRequests = Len(eventRequests(eventId, "accepted"))
       /\ st.rejectedRequests = Len(eventRequests(eventId, "rejected"))
       /\ st.laterRequests = Len(eventRequests(eventId, "later"))

C14_Witness ==
  /\ res.message = "Estatisticas carregadas"
  /\ res.data.value.totalRequests = 2
  /\ res.data.value.laterRequests = 1
  /\ res.data.value.rejectedRequests = 1
  /\ \E i \in DOMAIN requests : requests[i].status = "later_30_plus"

\* C15: for every reachable store the top tracks of an event have at most 10
\* entries and the global ones at most 20; each entry's count is the number
\* of Requests in scope with exactly its (trackName, artistName) pair; the
\* entries are in descending order of count, and entries with equal counts
\* are in the order their pairs were first submitted.
SamePair(r, t) == r.trackName = t.trackName /\ r.artistName = t.artistName
PairCount(rs, t) == Cardinality({i \in DOMAIN rs : SamePair(rs[i], t)})
FirstSubmitted(rs, t) ==
  CHOOSE i \in DOMAIN rs :
    SamePair(rs[i], t) /\ \A j \in DOMAIN rs : SamePair(rs[j], t) => i <= j

TopTracksOf(rs, n) ==
  LET tt == topTracks(rs, n)
  IN /\ Len(tt) <= n
     /\ \A k \in DOMAIN tt : tt[k].count = PairCount(rs, tt[k])
     /\ \A k \in DOMAIN tt, l \in DOMAIN tt :
          k < l =>
            /\ tt[k].count >= tt[l].count
            /\ tt[k].count = tt[l].count =>
                 FirstSubmitted(rs, tt[k]) < FirstSubmitted(rs, tt[l])

C15_TopTracks ==
  /\ TopTracksOf(requests, GlobalTopLimit)
  /\ \A eventId \in IdInputs : TopTracksOf(RequestsOf(eventId), EventTopLimit)

\* C16: in every reachable state every Event with active = true has
\* endedAt = null, whatever create, update and end calls led there.
C16_ActiveHasNoEnd ==
  \A i \in DOMAIN events : events[i].active = TRUE => events[i].endedAt = Null

\* C17: update-event, end-event and update-status called with an id that
\* matches no stored Event (no stored Request, for update-status) report
\* failure, change no Event and no Request, do not write the snapshot and
\* emit nothing.
EventExists(eventId) == \E i \in DOMAIN events : events[i].id = eventId
RequestExists(requestId) == \E i \in DOMAIN requests : requests[i].id = requestId
Refused ==
  /\ res'.success = FALSE
  /\ res'.data = NoData
  /\ events' = events
  /\ requests' = requests
  /\ file' = file
  /\ writeFailures' = writeFailures
  /\ emitted' = <<>>

C17_UnknownIdChangesNothing ==
  [][\A id \in IdInputs :
       /\ (/\ ~EventExists(id)
           /\ \E body \in ActivePatches : UpdateEvent(id, body, TRUE)) => Refused
       /\ (~EventExists(id) /\ EndEvent(id, TRUE)) => Refused
       /\ (/\ ~RequestExists(id)
           /\ \E status \in FewStatuses : UpdateStatus(id, status, TRUE)) =>
            Refused]_vars

C17_Witness ==
  /\ res.message = "Pedido nao encontrado"
  /\ requests /= <<>>
  /\ file = <<data>>
  /\ emitted = <<>>

\* C18: no status transition is refused: for every existing Request,
\* whatever its status and whether its Event is active or ended,
\* update-status to any of the six labels succeeds and leaves the Request
\* with that status, any number of times.
C18_AnyTransition ==
  [][\A i \in DOMAIN requests, status \in StatusLabels :
       UpdateStatus(requests[i].id, status, TRUE) =>
         /\ res'.success = TRUE
         /\ requests'[i].status = status
         /\ res'.data = RequestData(requests'[i])]_vars

C18_Witness ==
  /\ res.message = "Status atualizado"
  /\ res.data.value.status = "pending"
  /\ \E i \in DOMAIN requests :
       /\ requests[i] = res.data.value
       /\ requests[i].respondedAt /= Null
       /\ \E j \in DOMAIN events :
            events[j].id = requests[i].eventId /\ ~events[j].active
  /\ \E i \in DOMAIN requests : requests[i].status = "later_15_30"

\* C19: update-event changes exactly the fields present in the call among
\* name, acceptedStyles and active; every absent field keeps its value; the
\* Event's id, code, createdAt and endedAt are never changed by it, and no
\* other Event and no Request is changed.
C19_UpdateEventFrame ==
  [][\A i \in DOMAIN events, body \in PatchBodies :
       UpdateEvent(events[i].id, body, TRUE) =>
         /\ events'[i].name =
              (IF "name" \in DOMAIN body THEN body.name ELSE events[i].name)
         /\ events'[i].acceptedStyles =
              (IF "acceptedStyles" \in DOMAIN body
                 THEN body.acceptedStyles ELSE events[i].acceptedStyles)
         /\ events'[i].active =
              (IF "active" \in DOMAIN body THEN body.active ELSE events[i].active)
         /\ events'[i].id = events[i].id
         /\ events'[i].code = events[i].code
         /\ events'[i].createdAt = events[i].createdAt
         /\ events'[i].endedAt = events[i].endedAt
         /\ Len(events') = Len(events)
         /\ \A j \in DOMAIN events : j /= i => events'[j] = events[j]
         /\ requests' = requests]_vars

C19_Witness ==
  /\ res.message = "Evento atualizado"
  /\ res.data.value.active = TRUE
  /\ res.data.value.endedAt /= Null
  /\ res.data.value.name = "Baile"
  /\ res.data.value.acceptedStyles = <<>>
  /\ Len(events) = 2
  /\ requests /= <<>>

\* C20: in every successful mutating call the store is changed first, the
\* whole store is then written to the snapshot, the notification is emitted
\* next and the response sent last; so whenever a notification is emitted or
\* a success answered for a mutation, the store holds the entity as the
\* notification and the response carry it, and the write of the store with
\* that mutation has been attempted (done, or failed and counted).
MutatingCall(ok) ==
  \/ \E body \in OneCreateBody, rnd \in RandomCodes : CreateEvent(body, rnd, ok)
  \/ \E eventId \in IdInputs, body \in ActivePatches :
       UpdateEvent(eventId, body, ok)
  \/ \E eventId \in IdInputs : EndEvent(eventId, ok)
  \/ \E eventId \in IdInputs, body \in OneSubmitBody :
       SubmitRequest(eventId, body, ok)
  \/ \E requestId \in IdInputs, status \in FewStatuses :
       UpdateStatus(requestId, status, ok)

Stored(entity) ==
  \/ \E i \in DOMAIN events' : events'[i] = entity
  \/ \E i \in DOMAIN requests' : requests'[i] = entity

C20_MutateSaveEmitRespond ==
  [][\A ok \in BOOLEAN :
       (MutatingCall(ok) /\ (res'.success = TRUE \/ emitted' /= <<>>)) =>
         /\ res'.success = TRUE
         /\ Len(emitted') = 1
         /\ Stored(emitted'[1].payload)
         /\ res'.data.value = emitted'[1].payload
         /\ IF ok
              THEN /\ file' = <<[events |-> events', requests |-> requests']>>
                   /\ writeFailures' = writeFailures
              ELSE /\ file' \in {file, <<Truncated>>}
                   /\ writeFailures' = writeFailures + 1]_vars

C20_Witness ==
  /\ res.message = "Pedido enviado com sucesso"
  /\ Len(emitted) = 1
  /\ emitted[1].type = "new_request"
  /\ \E i \in DOMAIN requests : requests[i] = emitted[1].payload
  /\ writeFailures = 1
  /\ file /= <<>>
  /\ file /= <<data>>

\* C21: after every successful mutating call whose write of data.json
\* succeeds, data.json holds every Event and every Request of the store with
\* every field as the store has it, and a restart at that point loads a
\* store equal to the one before it; a start with no data.json gives empty
\* lists of Events and Requests.
SameObject(object, stored, fields) ==
  \A f \in fields : Field(object, f) = stored[f]

SnapshotIsStore ==
  /\ Len(file') = 1
  /\ file'[1] /= Truncated
  /\ Len(file'[1].events) = Len(events')
  /\ Len(file'[1].requests) = Len(requests')
  /\ \A i \in DOMAIN events' :
       SameObject(file'[1].events[i], events'[i], EventFields)
  /\ \A i \in DOMAIN requests' :
       SameObject(file'[1].requests[i], requests'[i], RequestFields)

C21_SnapshotRoundTrip ==
  [][/\ (/\ emitted' /= <<>>
         /\ res'.success = TRUE
         /\ writeFailures' = writeFailures) =>
          /\ SnapshotIsStore
          /\ loadData' = data'
     /\ (Restart /\ file = <<>>) => (events' = <<>> /\ requests' = <<>>)
     /\ (Restart /\ file /= <<>> /\ file /= <<Truncated>>
           /\ file = <<JSONstringify(data)>>) =>
          (events' = events /\ requests' = requests)]_vars

C21_Witness ==
  /\ res = sendResponse(TRUE, "", NoData)
  /\ Len(events) = 2
  /\ Len(requests) = 2
  /\ \E i \in DOMAIN requests : requests[i].trackName = Undefined
  /\ \E i \in DOMAIN requests : requests[i].status = "accepted"
  /\ file = <<JSONstringify(data)>>
  /\ writeFailures = 0

\* C22: when the write of data.json fails during a mutating call, the
\* mutation is still applied to the store, the notification is still
\* emitted and the call still reports success; data.json keeps the content
\* it had, so a restart right after loads what it would have loaded before
\* the call and loses exactly the mutations applied since the last
\* successful write.
C22_FailedWriteKeepsSnapshot ==
  [][(emitted' /= <<>> /\ writeFailures' = writeFailures + 1) =>
       /\ res'.success = TRUE
       /\ Len(emitted') = 1
       /\ Stored(emitted'[1].payload)
       /\ file' = file
       /\ loadData' = loadData]_vars

\* C28: a failed write of data.json is healed by the next successful one:
\* right after any successful write, whatever data.json was before (absent,
\* truncated, or behind the store by the mutations whose own write failed),
\* it holds every Event and Request of the store as the store has them.
Behind == loadData /= data

C28_NextWriteHeals ==
  [][(emitted' /= <<>> /\ writeFailures' = writeFailures) =>
       /\ file' = <<JSONstringify([events |-> events', requests |-> requests'])>>
       /\ LET loaded == JSONparse(file'[1])
          IN /\ loaded.events = events'
             /\ loaded.requests = requests'
       /\ ~Behind']_vars

C28_Witness ==
  /\ writeFailures = 1
  /\ emitted /= <<>>
  /\ res.success = TRUE
  /\ ~Behind
  /\ uuids = Len(events) + Len(requests)
  /\ Len(requests) = 2
  /\ Len(events) = 2

\* ----------------------------------------------------------------------
\* The search and its credential.
Waiting(pc) == {s \in Searches : searches[s].pc = pc}
Unexpired == spotifyToken /= Null /\ tokenExpiry /= Null /\ now < tokenExpiry
Placeholder(list, q) ==
  /\ Len(list) = 3
  /\ list[1].name = q
  /\ \A i \in 1..3 : list[i].image = NullText /\ list[i].uri = NullText
\* the call s ends while the process goes on
Answered(s) ==
  searches[s].pc /= "idle" /\ searches'[s].pc = "idle" /\ ~Restart

\* C23: a credential request is issued only when no unexpired credential is
\* cached, and never while another search is waiting for the credential it
\* requested: two searches that overlap do not both fetch one.
C23_OneCredentialRequest ==
  [][\A s \in Searches :
       (searches[s].pc /= "token" /\ searches'[s].pc = "token")
         => /\ ~Unexpired
            /\ Waiting("token") = {}]_vars

\* C24: a search always answers with success and a list. Without the
\* credentials, and when the credential exchange fails, the list is the
\* placeholder one; when the search at Spotify fails it is empty. A failed
\* exchange leaves the cached token and its expiry as they were, and a call
\* that then finds no unexpired token requests one again.
C24_SearchNeverFails ==
  [][/\ \A s \in Searches, q \in QueryInputs :
          (SearchTracks(s, q) /\ Len(trim(q)) >= 2)
            => /\ ~env => /\ res'.success
                          /\ Placeholder(res'.data.value, q)
                          /\ searches'[s].pc = "idle"
               /\ (env /\ ~Unexpired) => searches'[s].pc = "token"
               /\ (env /\ Unexpired) => searches'[s].pc = "search"
     /\ \A s \in Searches, expiresIn \in ExpiresInputs :
          TokenReply(s, FALSE, expiresIn)
            => /\ res'.success
               /\ Placeholder(res'.data.value, searches[s].q)
               /\ searches'[s].pc = "idle"
               /\ spotifyToken' = spotifyToken
               /\ tokenExpiry' = tokenExpiry
     /\ \A s \in Searches, outcome \in SearchOutcomes \ {"tracks"} :
          SearchReply(s, outcome)
            => /\ res'.success
               /\ res'.data = ListData(<<>>)
               /\ searches'[s].pc = "idle"
     /\ \A s \in Searches :
          Answered(s) => /\ res'.success
                         /\ res'.data.kind = "list"]_vars

\* an exchange failed while an expired token was cached: the placeholder
\* results were sent, the expired token is still cached and another search
\* is waiting for the credential it requested
C24_Witness ==
  /\ env
  /\ res.data.kind = "list"
  /\ Placeholder(res.data.value, <<"a", "b">>)
  /\ spotifyToken /= Null
  /\ now >= tokenExpiry
  /\ Waiting("token") /= {}

\* ----------------------------------------------------------------------
\* The requests and their events.

\* C25: in every reachable state a request whose respondedAt is null has the
\* status pending: no status differs from pending without the response
\* having been stamped.
C25_UnansweredIsPending ==
  \A i \in DOMAIN requests :
    requests[i].respondedAt = Null => requests[i].status = "pending"

\* one request was answered with a status other than pending and another
\* is still unanswered
C25_Witness ==
  /\ \E i \in DOMAIN requests :
       requests[i].status /= "pending" /\ requests[i].respondedAt /= Null
  /\ \E i \in DOMAIN requests : requests[i].respondedAt = Null

\* C26: from the empty store on, under create, update, end, submit and
\* update-status, the eventId of every request is the id of an event in the
\* store.
C26_RequestsReferToEvents ==
  \A i \in DOMAIN requests :
    \E j \in DOMAIN events : events[j].id = requests[i].eventId

\* the second event has a request, was ended, and a submit to an id that
\* is not an event's has just been refused
C26_Witness ==
  /\ Len(events) = 2
  /\ ~events[2].active
  /\ \E i \in DOMAIN requests :
       requests[i].eventId = events[2].id /\ requests[i].status = "accepted"
  /\ res.success = FALSE
  /\ res.message = "Evento nao encontrado ou encerrado"

Inactive(es, i) == i \in DOMAIN es /\ ~es[i].active

\* C27: over every step that leaves an event inactive, the number of
\* requests of that event does not change; a submit to an inactive event is
\* refused and stores nothing.
C27_InactiveEventGetsNoRequest ==
  [][/\ \A i \in DOMAIN events :
          (Inactive(events, i) /\ Inactive(events', i))
            => CountOf(requests', events[i].id)
                 = CountOf(requests, events[i].id)
     /\ \A eventId \in IdInputs, body \in OneSubmitBody :
          (/\ SubmitRequest(eventId, body, TRUE)
           /\ \E i \in DOMAIN events :
                events[i].id = eventId /\ ~events[i].active)
            => /\ res'.success = FALSE
               /\ requests' = requests]_vars

\* an event with a request was made inactive by an update, not by its end,
\* and a submit has just been refused
C27_Witness ==
  /\ \E i \in DOMAIN events :
       /\ ~events[i].active
       /\ events[i].endedAt = Null
       /\ CountOf(requests, events[i].id) >= 1
  /\ \A i \in DOMAIN events : ~events[i].active
  /\ res.success = FALSE
  /\ res.message = "Evento nao encontrado ou encerrado"

====
